---- MODULE Spec2Model ----
(***************************************************************************)
(* A model of cleanup-registry.py: the retention run over a Docker         *)
(* registry (main), the manifest / creation-date resolution                *)
(* (get_image_created_date) and the deletion by digest (delete_tag).       *)
(*                                                                         *)
(* Strings that the program inspects character by character (tags and      *)
(* protected patterns) are sequences of one-character strings.  JSON       *)
(* documents are records.  Python's None is the string "None" for a        *)
(* digest and the empty tuple for a date.                                  *)
(***************************************************************************)
EXTENDS Integers, Sequences, FiniteSets, TLC

(***************************************************************************)
(* Bounds of the model.                                                    *)
(***************************************************************************)
MaxRepos == 2       \* repositories in a catalog answer
MaxTags == 2        \* tags in a tags/list answer
MaxTime == 1        \* timestamps carried by registry documents: 0..MaxTime
MaxHist == 2        \* entries of a `history` list
MaxTicks == 1       \* clock ticks during one run
MaxRepoints == 1    \* moves of a tag by an external writer while it is processed
TicksPerDay == 2    \* clock resolution: ticks in a day
StartNow == 3       \* wall clock when the run starts

(***************************************************************************)
(* Tags, patterns, repositories, digests.                                  *)
(***************************************************************************)
latest == <<"l", "a", "t", "e", "s", "t">>
cache == <<"c", "a", "c", "h", "e">>
buildcache == <<"b", "u", "i", "l", "d">> \o cache
v1 == <<"v", "1">>
vRC == <<"v", "R", "C">>

Tags == {latest, v1, vRC}

rc == <<"r", "c">>
RC == <<"R", "C">>
te == <<"t", "e">>

RepoOrder == <<"app", "web">>
Digests == {"sha256:a", "sha256:b"}
NoneDigest == "None"
NoTag == <<>>

\* str.lower() on one character, for the letters the model's tags use
LowerChar(c) ==
    CASE c = "R" -> "r"
      [] c = "C" -> "c"
      [] c = "V" -> "v"
      [] OTHER -> c

\* tag.lower()
Lower(s) == [i \in 1..Len(s) |-> LowerChar(s[i])]

\* Python's `p in s` on strings: p occurs in s as a contiguous substring
Contains(p, s) ==
    \E i \in 0..(Len(s) - Len(p)) : SubSeq(s, i + 1, i + Len(p)) = p

\* the list literal of special tags
SPECIAL_TAGS == {buildcache, latest, cache}

(***************************************************************************)
(* Timestamps.  A timestamp string of a registry document is absent        *)
(* ("none": the key is missing, null or empty), unparseable ("bad") or     *)
(* parseable ("ok") with the wall-clock reading `wall`.  A resolved date   *)
(* is None (<<>>) or <<t>>.                                                *)
(***************************************************************************)
NoStr == [kind |-> "none", wall |-> 0]
BadStr == [kind |-> "bad", wall |-> 0]
OkStr(t) == [kind |-> "ok", wall |-> t]
Times == 0..MaxTime
DateStrs == {NoStr, BadStr} \cup {OkStr(t) : t \in Times}
NoneDate == <<>>

RECURSIVE SeqsUpTo(_, _)
SeqsUpTo(S, n) ==
    IF n = 0 THEN {<<>>}
    ELSE LET shorter == SeqsUpTo(S, n - 1)
         IN  shorter \cup {Append(q, x) : q \in {r \in shorter : Len(r) = n - 1}, x \in S}

Distinct(q) == \A i, j \in 1..Len(q) : i # j => q[i] # q[j]

Min(a, b) == IF a < b THEN a ELSE b

(***************************************************************************)
(* Registry documents.                                                     *)
(***************************************************************************)
MT_OCI == "application/vnd.oci.image.manifest.v1+json"
MT_V2 == "application/vnd.docker.distribution.manifest.v2+json"
MT_V1 == "application/vnd.docker.distribution.manifest.v1+json"
MT_LIST == "application/vnd.docker.distribution.manifest.list.v2+json"
MT_INDEX == "application/vnd.oci.image.index.v1+json"

\* the Accept values tried, in this order
manifest_types == <<MT_OCI, MT_V2, MT_V1>>

\* the media types handled as a multi-platform index
INDEX_TYPES == {MT_LIST, MT_INDEX}

\* A manifest document: its mediaType, the digest under 'config' ("None":
\* no such key), the digests of the entries under 'manifests', and the
\* `created` string of the v1Compatibility payload of each 'history' entry.
NoneManifest == [mediaType |-> "None", config |-> "None", manifests |-> <<>>, history |-> <<>>]
Image(c, h) == [mediaType |-> MT_V2, config |-> c, manifests |-> <<>>, history |-> h]
Legacy(h) == [mediaType |-> MT_V1, config |-> "None", manifests |-> <<>>, history |-> h]
Index(mt, es) == [mediaType |-> mt, config |-> "None", manifests |-> es, history |-> <<>>]

\* The registry is content-addressed: the manifest stored under a platform
\* entry's digest is fixed by the digest.
ChildDigests == {"sha256:m1", "sha256:m2"}
Child(d) == IF d = "sha256:m1" THEN Image("sha256:c1", <<>>) ELSE Image("sha256:c2", <<>>)
EntryLists == {<<>>, <<"sha256:m1", "sha256:m2">>, <<"sha256:m2", "sha256:m1">>}

\* A response: status (0: none received), Docker-Content-Digest and
\* Last-Modified headers.
NoneResponse == [status |-> 0, digest |-> NoneDigest, last_modified |-> NoStr]

\* A config blob: the top-level 'created' string and the 'created' string of
\* each 'history' entry; status 0: no blob was requested.
NoneConfig == [status |-> 0, created |-> NoStr, history |-> <<>>]

\* What a registry can answer.  The run is checked against a registry with a
\* few documents of every shape, the resolution alone against every
\* combination of the four date sources.
Histories == SeqsUpTo(DateStrs, MaxHist)
CoreDocs ==
    [manifests |-> {Image("sha256:c0", <<>>), Legacy(<<OkStr(0)>>), Legacy(<<>>),
                    Index(MT_LIST, <<"sha256:m1", "sha256:m2">>)},
     stamps |-> {NoStr, OkStr(MaxTime)},
     created |-> DateStrs,
     histories |-> {<<>>}]
AllDocs ==
    [manifests |-> {Image("sha256:c0", h) : h \in Histories}
                   \cup {Legacy(h) : h \in Histories}
                   \cup {Index(mt, es) : mt \in INDEX_TYPES, es \in EntryLists},
     stamps |-> DateStrs,
     created |-> DateStrs,
     histories |-> Histories]

GetStatuses == {200, 404, 500}
DeleteStatuses == {202, 404, 500}

(***************************************************************************)
(* State.                                                                  *)
(***************************************************************************)
VARIABLES
    PROTECTED_TAGS,      \* config['cleanup']['protected_tags']
    PROTECTED_PATTERNS,  \* config['cleanup'].get('protected_patterns', [])
    DAYS_TO_KEEP,        \* config['cleanup']['days_to_keep']
    now,                 \* datetime.now(), in ticks
    ticks,               \* clock ticks so far
    pointer,             \* registry: the digest the current tag points to
    repoints,            \* moves of the current tag by the external writer
    pc,                  \* position of the run
    cutoff_date,         \* main: cutoff_date
    repositories,        \* main: repositories
    repo_i,              \* main: position of `repo` in repositories
    tags,                \* main: tags
    tag_i,               \* main: position of `tag` in tags
    deleted_count,       \* main: deleted_count
    skipped_count,       \* main: skipped_count
    digest,              \* main: digest returned by get_image_created_date
    created_date,        \* main: created_date returned by it
    attempt,             \* get_image_created_date: position in manifest_types
    ldigest,             \* get_image_created_date: digest
    manifest,            \* get_image_created_date: manifest
    response,            \* get_image_created_date: response
    config,              \* get_image_created_date: config (with its status)
    raised,              \* the except clause of get_image_created_date ran
    reqs,                \* requests sent for the current tag, with the answers
    outcome,             \* what was decided for the current tag
    age_days,            \* main: age_days of the current tag
    message,             \* the line printed about the current tag
    exit_code,           \* process exit status
    gc_runs,             \* runs of the garbage collector
    measured,            \* post-run storage measurements
    summaries,           \* prints of the totals
    exception,           \* main: the exception that reached its except clause
    processed,           \* history: tags that were given an outcome
    skips,               \* history: SkipSpecial and SkipUnresolvable outcomes
    accepted             \* history: DELETE requests answered 202

cfg_vars == <<PROTECTED_TAGS, PROTECTED_PATTERNS, DAYS_TO_KEEP>>
env_vars == <<now, ticks, pointer, repoints>>
loop_vars == <<repositories, repo_i, tags, tag_i>>
count_vars == <<deleted_count, skipped_count>>
call_vars == <<attempt, ldigest, manifest, response, config>>
ret_vars == <<digest, created_date, raised>>
end_vars == <<exit_code, gc_runs, measured, summaries, exception>>
hist_vars == <<processed, skips, accepted>>
vars == <<cfg_vars, env_vars, pc, cutoff_date, loop_vars, count_vars, ret_vars,
          call_vars, reqs, outcome, age_days, message, end_vars, hist_vars>>

repo == repositories[repo_i]
tag == tags[tag_i]

ProtectedTagSets == {{}, {latest}, {v1}}
PatternSets == {{}, {rc}, {RC}, {te}}
Catalogs == {SubSeq(RepoOrder, 1, n) : n \in 0..Min(MaxRepos, Len(RepoOrder))}
TagLists == {q \in SeqsUpTo(Tags, Min(MaxTags, Cardinality(Tags))) : Distinct(q)}

\* the per-tag state before a tag is taken up
Fresh ==
    /\ digest = NoneDigest /\ created_date = NoneDate /\ raised = FALSE
    /\ attempt = 1 /\ ldigest = NoneDigest /\ manifest = NoneManifest
    /\ response = NoneResponse /\ config = NoneConfig
    /\ reqs = <<>> /\ outcome = "None" /\ age_days = 0 /\ message = ""
    /\ pointer = "sha256:a" /\ repoints = 0

Init ==
    /\ PROTECTED_TAGS \in ProtectedTagSets
    /\ PROTECTED_PATTERNS \in PatternSets
    /\ DAYS_TO_KEEP = 1
    /\ now = StartNow /\ ticks = 0
    /\ pc = "start"
    /\ cutoff_date = 0
    /\ repositories = <<>> /\ repo_i = 1 /\ tags = <<>> /\ tag_i = 1
    /\ deleted_count = 0 /\ skipped_count = 0
    /\ Fresh
    /\ exit_code = 0 /\ gc_runs = 0 /\ measured = 0 /\ summaries = 0
    /\ exception = "None"
    /\ processed = 0 /\ skips = 0 /\ accepted = 0

\* leaving a tag: the per-tag state is as before a tag is taken up
Forget ==
    /\ digest' = NoneDigest /\ created_date' = NoneDate /\ raised' = FALSE
    /\ attempt' = 1 /\ ldigest' = NoneDigest /\ manifest' = NoneManifest
    /\ response' = NoneResponse /\ config' = NoneConfig
    /\ reqs' = <<>> /\ outcome' = "None" /\ age_days' = 0 /\ message' = ""
    /\ pointer' = "sha256:a" /\ repoints' = 0

\* a request and its answer, as logged: status 0 is a transport error
Req(method, t, d, accept, r) ==
    [method |-> method, tag |-> t, dg |-> d, accept |-> accept,
     status |-> r.status, digest |-> r.digest, last_modified |-> r.last_modified]

Answer(st) == [status |-> st, digest |-> NoneDigest, last_modified |-> NoStr]

\* requests' Response.__bool__: a response is true when its status is below 400
Truthy(r) == r.status # 0 /\ r.status < 400

(***************************************************************************)
(* main, up to the tag loop.                                               *)
(***************************************************************************)
\* main: the banner, the first storage measurement and the cutoff
Start ==
    /\ pc = "start"
    /\ cutoff_date' = now - DAYS_TO_KEEP * TicksPerDay
    /\ pc' = "get_repositories"
    /\ UNCHANGED <<cfg_vars, env_vars, loop_vars, count_vars, ret_vars, call_vars,
                   reqs, outcome, age_days, message, end_vars, hist_vars>>

\* get_repositories: raise_for_status or a transport error raises into main
GetRepositories ==
    /\ pc = "get_repositories"
    /\ \E st \in GetStatuses \cup {0}, answer \in Catalogs :
          /\ (st # 200 => answer = <<>>)
          /\ IF st = 200
             THEN repositories' = answer /\ pc' = "repo_loop" /\ exception' = exception
             ELSE repositories' = repositories /\ pc' = "except"
                  /\ exception' = IF st = 0 THEN "ConnectionError" ELSE "HTTPError"
    /\ repo_i' = 1
    /\ UNCHANGED <<cfg_vars, env_vars, cutoff_date, tags, tag_i, count_vars, ret_vars,
                   call_vars, reqs, outcome, age_days, message, exit_code, gc_runs,
                   measured, summaries, hist_vars>>

\* for repo in repositories: tags = get_tags(repo); an empty list moves on
GetTags ==
    /\ pc = "repo_loop"
    /\ repo_i <= Len(repositories)
    /\ \E st \in GetStatuses \cup {0}, answer \in TagLists :
          /\ (st # 200 => answer = <<>>)
          /\ IF st # 200
             THEN /\ pc' = "except" /\ UNCHANGED <<repo_i, tags, tag_i>>
                  /\ exception' = IF st = 0 THEN "ConnectionError" ELSE "HTTPError"
             ELSE IF answer = <<>>
             THEN /\ pc' = "repo_loop" /\ repo_i' = repo_i + 1
                  /\ UNCHANGED <<tags, tag_i, exception>>
             ELSE /\ pc' = "tag_loop" /\ tags' = answer /\ tag_i' = 1 /\ repo_i' = repo_i
                  /\ exception' = exception
    /\ UNCHANGED <<cfg_vars, env_vars, cutoff_date, repositories, count_vars, ret_vars,
                   call_vars, reqs, outcome, age_days, message, exit_code, gc_runs,
                   measured, summaries, hist_vars>>

\* the repository loop is exhausted
ReposDone ==
    /\ pc = "repo_loop"
    /\ repo_i > Len(repositories)
    /\ pc' = "summary"
    /\ UNCHANGED <<cfg_vars, env_vars, cutoff_date, loop_vars, count_vars, ret_vars,
                   call_vars, reqs, outcome, age_days, message, end_vars, hist_vars>>

\* the tag loop of a repository is exhausted
TagsDone ==
    /\ pc = "tag_loop"
    /\ tag_i > Len(tags)
    /\ pc' = "repo_loop"
    /\ repo_i' = repo_i + 1
    /\ UNCHANGED <<cfg_vars, env_vars, cutoff_date, repositories, tags, tag_i, count_vars,
                   ret_vars, call_vars, reqs, outcome, age_days, message, end_vars, hist_vars>>

\* tag in PROTECTED_TAGS
IsProtectedTag(t) == t \in PROTECTED_TAGS

\* any(pattern in tag_lower for pattern in PROTECTED_PATTERNS)
MatchesPattern(t) == \E pattern \in PROTECTED_PATTERNS : Contains(pattern, Lower(t))

\* a variant whose list lacks 'latest'
IsSpecialTag_NoLatest(t) == t \in {buildcache, cache}

\* tag in ['buildcache', 'latest', 'cache']
IsSpecialTag(t) == t \in SPECIAL_TAGS

\* a variant that checks the special tags first
Shortcut_SpecialFirst(t) ==
    IF IsSpecialTag(t) THEN "SkipSpecial"
    ELSE IF IsProtectedTag(t) THEN "KeepProtected"
    ELSE IF MatchesPattern(t) THEN "KeepProtected"
    ELSE "None"

\* the three checks made on the tag's name, in their order
Shortcut(t) ==
    IF IsProtectedTag(t) THEN "KeepProtected"
    ELSE IF MatchesPattern(t) THEN "KeepProtected"
    ELSE IF IsSpecialTag(t) THEN "SkipSpecial"
    ELSE "None"

\* for tag in tags: the protection and special-tag checks; a tag that passes
\* them goes to get_image_created_date
CheckTag ==
    /\ pc = "tag_loop"
    /\ tag_i <= Len(tags)
    /\ outcome' = Shortcut(tag)
    /\ skipped_count' = IF Shortcut(tag) = "SkipSpecial" THEN skipped_count + 1 ELSE skipped_count
    /\ message' = CASE Shortcut(tag) = "KeepProtected" -> "Keeping protected tag"
                     [] Shortcut(tag) = "SkipSpecial" -> "Skipping special tag"
                     [] OTHER -> ""
    /\ pc' = IF Shortcut(tag) = "None" THEN "negotiate" ELSE "tag_done"
    /\ processed' = IF Shortcut(tag) = "None" THEN processed ELSE processed + 1
    /\ skips' = IF Shortcut(tag) = "SkipSpecial" THEN skips + 1 ELSE skips
    /\ UNCHANGED <<cfg_vars, env_vars, cutoff_date, loop_vars, deleted_count, ret_vars,
                   call_vars, reqs, age_days, end_vars, accepted>>

\* continue: the next tag
NextTag ==
    /\ pc = "tag_done"
    /\ tag_i' = tag_i + 1
    /\ pc' = "tag_loop"
    /\ Forget
    /\ UNCHANGED <<cfg_vars, now, ticks, cutoff_date, repositories, repo_i, tags, count_vars,
                   end_vars, hist_vars>>

(***************************************************************************)
(* get_image_created_date.  A step of the date chain returns a date,       *)
(* raises, or finds nothing.                                               *)
(***************************************************************************)
Raise == [tag |-> "raise", date |-> 0]
Ret(t) == [tag |-> "ret", date |-> t]
Nothing == [tag |-> "none", date |-> 0]

\* datetime.fromisoformat(...).replace(tzinfo=None) and
\* parsedate_to_datetime(...).replace(tzinfo=None): the wall-clock reading of
\* the string, or an exception
Parse(str) == IF str.kind = "ok" THEN Ret(str.wall) ELSE Raise

\* created_str = config.get('created'); if created_str: ...
ConfigCreated(cfg) == IF cfg.created.kind = "none" THEN Nothing ELSE Parse(cfg.created)

\* for hist in config['history']: if 'created' in hist: ...
RECURSIVE FirstCreated(_)
FirstCreated(h) ==
    IF h = <<>> THEN Nothing
    ELSE IF Head(h).kind # "none" THEN Parse(Head(h))
    ELSE FirstCreated(Tail(h))

\* Method 1 on a fetched blob: only a 200 answer is read
Method1(cfg) ==
    IF cfg.status # 200 THEN Nothing
    ELSE IF ConfigCreated(cfg).tag # "none" THEN ConfigCreated(cfg)
    ELSE FirstCreated(cfg.history)

\* Method 2: `if response:` and its Last-Modified header
Method2(r) ==
    IF Truthy(r) /\ r.last_modified.kind # "none" THEN Parse(r.last_modified) ELSE Nothing

\* Method 3: for history_entry in manifest.get('history', []): ...
RECURSIVE Method3(_)
Method3(h) ==
    IF h = <<>> THEN Nothing
    ELSE IF Head(h).kind # "none" THEN Parse(Head(h))
    ELSE Method3(Tail(h))

\* what follows Method 1 when it found nothing
Fallbacks(m, r) == IF Method2(r).tag # "none" THEN Method2(r) ELSE Method3(m.history)

\* the chain from a fetched blob on
Chain(cfg, m, r) == IF Method1(cfg).tag # "none" THEN Method1(cfg) ELSE Fallbacks(m, r)

\* `return digest, date`, `return digest, None`, or the except clause's
\* `return None, None`
Return(dg, res) ==
    /\ digest' = IF res.tag = "raise" THEN NoneDigest ELSE dg
    /\ created_date' = IF res.tag = "ret" THEN <<res.date>> ELSE NoneDate
    /\ raised' = (res.tag = "raise")
    /\ pc' = "resolved"

IsIndex(m) == m.mediaType \in INDEX_TYPES /\ Len(m.manifests) > 0
HasConfig(m) == m.config # "None"

\* a variant that does not stop at a 404
NotFound_Never(st) == FALSE

\* response.status_code == 404
NotFound(st) == st = 404

\* response.status_code == 200
Found(st) == st = 200

\* one turn of `for media_type in manifest_types`, and what follows it up to
\* the next request
Negotiate(docs) ==
    /\ pc = "negotiate"
    /\ \E st \in GetStatuses \cup {0}, hd \in {NoneDigest, pointer},
          lm \in docs.stamps, m \in docs.manifests \cup {NoneManifest} :
          /\ (st = 200) = (m # NoneManifest)
          /\ (st # 200 => hd = NoneDigest /\ lm = NoStr)
          /\ LET r == [status |-> st, digest |-> hd, last_modified |-> lm]
                 last == attempt = Len(manifest_types)
                 error == st = 0
                 gone == ~error /\ NotFound(st)
                 got == ~error /\ ~gone /\ Found(st)
                 more == ~error /\ ~gone /\ ~got /\ ~last
             IN  /\ reqs' = Append(reqs, Req("GET", tag, "None", manifest_types[attempt], r))
                 /\ response' = IF error THEN response ELSE r
                 /\ ldigest' = IF got THEN hd ELSE ldigest
                 /\ manifest' = IF got THEN m ELSE manifest
                 /\ attempt' = IF more THEN attempt + 1 ELSE attempt
                 /\ CASE error -> Return(NoneDigest, Raise)
                      [] gone -> Return(NoneDigest, Nothing)
                      [] got /\ IsIndex(m) -> pc' = "refetch" /\ UNCHANGED ret_vars
                      [] got /\ ~IsIndex(m) /\ HasConfig(m) ->
                            pc' = "method1" /\ UNCHANGED ret_vars
                      [] got /\ ~IsIndex(m) /\ ~HasConfig(m) -> Return(hd, Fallbacks(m, r))
                      [] more -> pc' = "negotiate" /\ UNCHANGED ret_vars
                      [] OTHER -> Return(NoneDigest, Nothing)
    /\ UNCHANGED <<cfg_vars, env_vars, cutoff_date, loop_vars, count_vars, config,
                   outcome, age_days, message, end_vars, hist_vars>>

\* a variant that takes the last entry
FirstEntry_Last(m) == m.manifests[Len(m.manifests)]

\* manifest['manifests'][0]['digest']
FirstEntry(m) == m.manifests[1]

\* the re-fetch of a multi-platform index's entry, and what follows it up to
\* the next request
Refetch(docs) ==
    /\ pc = "refetch"
    /\ \E st \in GetStatuses \cup {0}, lm \in docs.stamps :
          /\ (st = 0 => lm = NoStr)
          /\ LET first_manifest_digest == FirstEntry(manifest)
                 r == [status |-> st,
                       digest |-> IF st = 200 THEN first_manifest_digest ELSE NoneDigest,
                       last_modified |-> lm]
                 m == IF st = 200 THEN Child(first_manifest_digest) ELSE manifest
             IN  /\ reqs' = Append(reqs, Req("GET", NoTag, first_manifest_digest, MT_OCI, r))
                 /\ response' = IF st = 0 THEN response ELSE r
                 /\ manifest' = m
                 /\ CASE st = 0 -> Return(NoneDigest, Raise)
                      [] st # 0 /\ HasConfig(m) -> pc' = "method1" /\ UNCHANGED ret_vars
                      [] OTHER -> Return(ldigest, Fallbacks(m, r))
    /\ UNCHANGED <<cfg_vars, env_vars, cutoff_date, loop_vars, count_vars, attempt, ldigest,
                   config, outcome, age_days, message, end_vars, hist_vars>>

\* Method 1's request for the config blob, and the rest of the chain
FetchConfigBlob(docs) ==
    /\ pc = "method1"
    /\ \E st \in GetStatuses \cup {0}, c \in docs.created, h \in docs.histories :
          /\ (st # 200 => c = NoStr /\ h = <<>>)
          /\ LET cfg == [status |-> st, created |-> c, history |-> h]
             IN  /\ reqs' = Append(reqs, Req("GET", NoTag, manifest.config, "None", Answer(st)))
                 /\ config' = cfg
                 /\ Return(ldigest, IF st = 0 THEN Raise ELSE Chain(cfg, manifest, response))
    /\ UNCHANGED <<cfg_vars, env_vars, cutoff_date, loop_vars, count_vars, attempt, ldigest,
                   manifest, response, outcome, age_days, message, end_vars, hist_vars>>

(***************************************************************************)
(* main, from the return of get_image_created_date on.                     *)
(***************************************************************************)
\* (datetime.now() - created_date).days
AgeDays(t, created) == (t - created) \div TicksPerDay

\* a variant with an inclusive boundary
IsOld_Inclusive(created, cutoff) == created <= cutoff

\* created_date < cutoff_date
IsOld(created, cutoff) == created < cutoff

\* a variant that lets a missing digest through
DigestMissing_Never(dg) == FALSE

\* digest is None
DigestMissing(dg) == dg = NoneDigest

\* created_date is None
DateMissing(created) == created = NoneDate

\* the checks on (digest, created_date) and the age comparison; the locals of
\* get_image_created_date are gone
Decide ==
    /\ pc = "resolved"
    /\ IF DigestMissing(digest)
       THEN /\ outcome' = "SkipUnresolvable" /\ message' = "Skipping tag (not found)"
            /\ skipped_count' = skipped_count + 1
            /\ age_days' = age_days /\ pc' = "tag_done"
       ELSE IF DateMissing(created_date)
       THEN /\ outcome' = "SkipUnresolvable" /\ message' = "Skipping tag (no date info)"
            /\ skipped_count' = skipped_count + 1
            /\ age_days' = age_days /\ pc' = "tag_done"
       ELSE /\ age_days' = AgeDays(now, created_date[1])
            /\ skipped_count' = skipped_count
            /\ IF IsOld(created_date[1], cutoff_date)
               THEN outcome' = "Delete" /\ message' = "Deleting tag" /\ pc' = "delete"
               ELSE outcome' = "KeepRecent" /\ message' = "Keeping recent tag"
                    /\ pc' = "tag_done"
    /\ attempt' = 1 /\ ldigest' = NoneDigest /\ manifest' = NoneManifest
    /\ response' = NoneResponse /\ config' = NoneConfig
    /\ processed' = processed + 1
    /\ skips' = IF outcome' = "SkipUnresolvable" THEN skips + 1 ELSE skips
    /\ UNCHANGED <<cfg_vars, env_vars, cutoff_date, loop_vars, deleted_count, ret_vars,
                   reqs, end_vars, accepted>>

\* a variant that deletes what the tag points to when the request is sent
DeleteTarget_Current(repository, dg) == pointer

\* delete_tag: the manifest reference in the DELETE url
DeleteTarget(repository, dg) == dg

\* a variant that expects the status 200 of a read
Accepted_On200(st) == st = 200

\* a variant that takes an answer that the manifest is gone as a success
Accepted_OrGone(st) == st \in {202, 404}

\* delete_tag: response.status_code == 202
Accepted(st) == st = 202

\* delete_tag(repo, digest) and the count; a transport error raises into main
DeleteTag ==
    /\ pc = "delete"
    /\ \E st \in DeleteStatuses \cup {0} :
          /\ reqs' = Append(reqs, Req("DELETE", NoTag, DeleteTarget(repo, digest), "None",
                                      Answer(st)))
          /\ deleted_count' = IF st # 0 /\ Accepted(st) THEN deleted_count + 1
                                                        ELSE deleted_count
          /\ message' = CASE st = 0 -> message
                          [] st # 0 /\ Accepted(st) -> "Successfully deleted"
                          [] OTHER -> "Failed to delete"
          /\ pc' = IF st = 0 THEN "except" ELSE "tag_done"
          /\ exception' = IF st = 0 THEN "ConnectionError" ELSE exception
          /\ accepted' = IF st = 202 THEN accepted + 1 ELSE accepted
    /\ UNCHANGED <<cfg_vars, env_vars, cutoff_date, loop_vars, skipped_count, ret_vars,
                   call_vars, outcome, age_days, exit_code, gc_runs, measured, summaries,
                   processed, skips>>

\* the totals, then garbage collection when something was deleted;
\* run_garbage_collection_docker catches its own errors
Summary ==
    /\ pc = "summary"
    /\ summaries' = summaries + 1
    /\ gc_runs' = IF deleted_count > 0 THEN gc_runs + 1 ELSE gc_runs
    /\ pc' = "finally"
    /\ UNCHANGED <<cfg_vars, env_vars, cutoff_date, loop_vars, count_vars, ret_vars,
                   call_vars, reqs, outcome, age_days, message, exit_code, measured, exception,
                   hist_vars>>

\* a variant that ends the process at once, as os._exit(1) does
Except_HardExit ==
    /\ pc = "except"
    /\ exit_code' = 1
    /\ pc' = "done"
    /\ Forget
    /\ UNCHANGED <<cfg_vars, now, ticks, cutoff_date, loop_vars, count_vars, gc_runs, measured,
                   summaries, exception, hist_vars>>

\* except Exception: ... sys.exit(1); the frames of the tag in hand are gone
Except ==
    /\ pc = "except"
    /\ exit_code' = 1
    /\ pc' = "finally"
    /\ Forget
    /\ UNCHANGED <<cfg_vars, now, ticks, cutoff_date, loop_vars, count_vars, gc_runs, measured,
                   summaries, exception, hist_vars>>

\* finally: the post-cleanup storage measurement
Finally ==
    /\ pc = "finally"
    /\ measured' = measured + 1
    /\ pc' = "done"
    /\ UNCHANGED <<cfg_vars, env_vars, cutoff_date, loop_vars, count_vars, ret_vars,
                   call_vars, reqs, outcome, age_days, message, exit_code, gc_runs, summaries,
                   exception, hist_vars>>

(***************************************************************************)
(* The environment: the wall clock and an external writer of the registry. *)
(***************************************************************************)
\* The wall clock.  datetime.now() is read once per tag, for its age: the
\* clock moves between two tags.
Tick ==
    /\ pc = "tag_loop"
    /\ ticks < MaxTicks
    /\ now' = now + 1
    /\ ticks' = ticks + 1
    /\ UNCHANGED <<cfg_vars, pointer, repoints, pc, cutoff_date, loop_vars, count_vars,
                   ret_vars, call_vars, reqs, outcome, age_days, message, end_vars, hist_vars>>

\* An external writer moves the tag in hand to another digest.  The registry
\* reads the pointer when it answers the manifest request; the move that the
\* run can race with comes after that answer and before the DELETE request.
Repoint ==
    /\ pc = "delete"
    /\ repoints < MaxRepoints
    /\ \E d \in Digests \ {pointer} : pointer' = d
    /\ repoints' = repoints + 1
    /\ UNCHANGED <<cfg_vars, now, ticks, pc, cutoff_date, loop_vars, count_vars,
                   ret_vars, call_vars, reqs, outcome, age_days, message, end_vars, hist_vars>>

Next ==
    \/ Start
    \/ GetRepositories
    \/ GetTags
    \/ ReposDone
    \/ TagsDone
    \/ CheckTag
    \/ Negotiate(CoreDocs)
    \/ Refetch(CoreDocs)
    \/ FetchConfigBlob(CoreDocs)
    \/ Decide
    \/ DeleteTag
    \/ NextTag
    \/ Summary
    \/ Except
    \/ Finally
    \/ Tick
    \/ Repoint

Spec == Init /\ [][Next]_vars

(***************************************************************************)
(* One call get_image_created_date(repo, tag), against every combination   *)
(* of documents.                                                           *)
(***************************************************************************)
InitResolve ==
    /\ PROTECTED_TAGS = {} /\ PROTECTED_PATTERNS = {} /\ DAYS_TO_KEEP = 1
    /\ now = StartNow /\ ticks = 0
    /\ pc = "negotiate"
    /\ cutoff_date = StartNow - TicksPerDay
    /\ repositories = <<RepoOrder[1]>> /\ repo_i = 1 /\ tags = <<v1>> /\ tag_i = 1
    /\ deleted_count = 0 /\ skipped_count = 0
    /\ Fresh
    /\ exit_code = 0 /\ gc_runs = 0 /\ measured = 0 /\ summaries = 0
    /\ exception = "None"
    /\ processed = 0 /\ skips = 0 /\ accepted = 0

NextResolve ==
    \/ Negotiate(AllDocs)
    \/ Refetch(AllDocs)
    \/ FetchConfigBlob(AllDocs)

SpecResolve == InitResolve /\ [][NextResolve]_vars

(***************************************************************************)
(* Properties.                                                             *)
(***************************************************************************)
\* a tag is in hand
HasTag == tag_i <= Len(tags)

\* the requests of the current tag of a given kind
IsDelete(q) == q.method = "DELETE"
IsTagGet(q) == q.method = "GET" /\ q.tag # NoTag
HasDelete == \E i \in DOMAIN reqs : IsDelete(reqs[i])

\* the tag has been decided: Delete is decided before the DELETE request
Decided == pc \in {"delete", "tag_done"} \/ (pc = "except" /\ outcome # "None")

\* the cutoff of the run: the clock at its start less the retention window
RunCutoff == StartNow - DAYS_TO_KEEP * TicksPerDay

\* C1: a tag is decided Delete, and a DELETE request is sent for it, only if
\* its resolution returned a digest and a creation date; a 200 manifest
\* answer without a Docker-Content-Digest header never leads to either, also
\* when a date was resolved.
C1_DeleteNeedsDigestAndDate ==
    /\ (outcome = "Delete" \/ HasDelete) => digest # NoneDigest /\ created_date # NoneDate
    /\ (\E i \in DOMAIN reqs :
           IsTagGet(reqs[i]) /\ reqs[i].status = 200 /\ reqs[i].digest = NoneDigest)
          => outcome # "Delete" /\ ~HasDelete

C1_Witness ==
    /\ HasDelete /\ outcome = "Delete"
    /\ digest \in Digests /\ created_date # NoneDate

\* C2: a tag that is a member of protected_tags is kept as protected, with no
\* request of any kind sent for it, whatever the registry holds for it and
\* also when it is a special tag.
C2_ProtectedTagUntouched ==
    (HasTag /\ tag \in PROTECTED_TAGS) =>
        /\ reqs = <<>>
        /\ pc \in {"tag_loop", "tag_done"}
        /\ pc = "tag_done" => outcome = "KeepProtected"
        /\ pc = "tag_loop" => outcome = "None"

C2_Witness ==
    /\ HasTag /\ pc = "tag_done"
    /\ tag \in PROTECTED_TAGS /\ tag \in SPECIAL_TAGS
    /\ outcome = "KeepProtected" /\ reqs = <<>>

\* C3: a decided tag that is neither protected nor special and has a digest
\* and a creation date is Delete exactly when created_date < cutoff, and
\* KeepRecent otherwise: created_date = cutoff is kept, cutoff - 1 is deleted.
C3_DeleteIffOlderThanCutoff ==
    (/\ HasTag /\ Decided
     /\ tag \notin PROTECTED_TAGS /\ ~MatchesPattern(tag) /\ tag \notin SPECIAL_TAGS
     /\ digest # NoneDigest /\ created_date # NoneDate) =>
        /\ outcome \in {"Delete", "KeepRecent"}
        /\ (outcome = "Delete") = (created_date[1] < RunCutoff)
        /\ created_date[1] = RunCutoff => outcome = "KeepRecent"
        /\ created_date[1] = RunCutoff - 1 => outcome = "Delete"

C3_Witness ==
    /\ HasTag /\ pc = "tag_done"
    /\ digest # NoneDigest /\ created_date = <<RunCutoff>>
    /\ outcome = "KeepRecent" /\ ~HasDelete

\* a pattern occurs in the tag when the two are compared without regard to case
MatchesAnyCase(t) == \E p \in PROTECTED_PATTERNS : Contains(Lower(p), Lower(t))

\* C4: a tag in which an entry of protected_patterns occurs, compared without
\* regard to the case of either, is kept as protected and no request, so no
\* DELETE request, is sent for it.
C4_PatternMatchesAnyCase ==
    (HasTag /\ MatchesAnyCase(tag)) =>
        /\ ~HasDelete
        /\ pc \in {"tag_loop", "tag_done"}
        /\ pc = "tag_done" => outcome = "KeepProtected"

(***************************************************************************)
(* The four date sources of a finished resolution, read off the answers    *)
(* the registry gave: what each holds as a value, <<>> when it holds none. *)
(***************************************************************************)
Value(str) == IF str.kind = "ok" THEN <<str.wall>> ELSE <<>>

\* the first entry of a history that carries a `created`
FirstWithCreated(h) ==
    LET with == {i \in DOMAIN h : h[i].kind # "none"}
    IN  IF with = {} THEN <<>>
        ELSE Value(h[CHOOSE i \in with : \A j \in with : i <= j])

\* the answer that carried the tag's manifest, and the answer that carried
\* the manifest in use: the re-fetched entry's when the re-fetch answered 200
TagAnswers == {i \in DOMAIN reqs : IsTagGet(reqs[i]) /\ reqs[i].status = 200}
EntryAnswers ==
    {i \in DOMAIN reqs : reqs[i].method = "GET" /\ reqs[i].tag = NoTag
                           /\ reqs[i].dg \in ChildDigests /\ reqs[i].status = 200}
ManifestAnswers == IF EntryAnswers # {} THEN EntryAnswers ELSE TagAnswers

Source1 == IF config.status = 200 THEN Value(config.created) ELSE <<>>
Source2 == IF config.status = 200 THEN FirstWithCreated(config.history) ELSE <<>>
Source3 ==
    IF ManifestAnswers = {} THEN <<>>
    ELSE Value(reqs[CHOOSE i \in ManifestAnswers : TRUE].last_modified)
Source4 == FirstWithCreated(manifest.history)

FirstValue ==
    IF Source1 # <<>> THEN Source1
    ELSE IF Source2 # <<>> THEN Source2
    ELSE IF Source3 # <<>> THEN Source3
    ELSE Source4

\* C5: the resolved date is the value of the first of the four sources, in
\* the order config `created`, config `history`, Last-Modified of the
\* manifest response, v1Compatibility `history`, that holds a value, and None
\* when none of them holds one.  Stated of the resolutions in which no step
\* raised; C6 is about the others.
C5_FirstSourceWins == (pc = "resolved" /\ ~raised) => created_date = FirstValue

\* the config blob request met a transport error
BlobError ==
    \E i \in DOMAIN reqs :
        /\ reqs[i].method = "GET" /\ reqs[i].tag = NoTag
        /\ reqs[i].dg \notin ChildDigests /\ reqs[i].status = 0

\* the config blob's `created` cannot be parsed and its history holds nothing
BadCreated ==
    config.status = 200 /\ config.created.kind = "bad" /\ config.history = <<>>

\* C6: when the config step fails (the blob request raises, or its `created`
\* cannot be parsed), the chain goes on: a valid Last-Modified of the manifest
\* response is the resolved date.
C6_FailedStepIsSkipped ==
    (/\ pc = "resolved"
     /\ BlobError \/ BadCreated
     /\ Truthy(response) /\ response.last_modified.kind = "ok") =>
        created_date = <<response.last_modified.wall>>

\* C7: the manifest requests by tag go to the one endpoint, one per media
\* type in the order of manifest_types, and none follows a 200 or a 404
C7_Order ==
    \A i \in DOMAIN reqs :
        IsTagGet(reqs[i]) =>
            /\ i <= Len(manifest_types)
            /\ reqs[i].accept = manifest_types[i]
            /\ reqs[i].tag = tag
            /\ \A j \in 1..(i - 1) : IsTagGet(reqs[j]) /\ reqs[j].status \notin {200, 404}

\* C7: a 404 is the last request sent for the tag; the resolution returns
\* (None, None) and the tag is decided SkipUnresolvable
C7_NotFoundEnds ==
    \A i \in DOMAIN reqs :
        (IsTagGet(reqs[i]) /\ reqs[i].status = 404) =>
            /\ i = Len(reqs)
            /\ pc \in {"resolved", "tag_done"}
            /\ digest = NoneDigest /\ created_date = NoneDate
            /\ pc = "tag_done" => outcome = "SkipUnresolvable"

\* C7: deciding such a tag counts it as skipped
C7_NotFoundCounted ==
    (/\ pc = "resolved" /\ pc' # "resolved"
     /\ \E i \in DOMAIN reqs : IsTagGet(reqs[i]) /\ reqs[i].status = 404) =>
        /\ pc' = "tag_done"
        /\ outcome' = "SkipUnresolvable"
        /\ skipped_count' = skipped_count + 1
        /\ deleted_count' = deleted_count
        /\ reqs' = reqs

\* C7: manifest resolution asks once per media type in the fixed order and
\* stops at the first 200; a 404 ends it at once, and the tag is then
\* skipped as unresolvable, counted, with no DELETE request.
C7_NegotiationStopsAt200Or404 ==
    [](C7_Order /\ C7_NotFoundEnds) /\ [][C7_NotFoundCounted]_vars

C7_Witness ==
    /\ pc = "tag_done" /\ Len(reqs) = 2
    /\ reqs[1].status = 500 /\ reqs[1].accept = MT_OCI
    /\ reqs[2].status = 404 /\ reqs[2].accept = MT_V2
    /\ outcome = "SkipUnresolvable" /\ skipped_count = 1

\* the re-fetches and the blob requests among the requests of the tag
IsRefetch(q) == q.method = "GET" /\ q.tag = NoTag /\ q.dg \in ChildDigests
IsBlobGet(q) == q.method = "GET" /\ q.tag = NoTag /\ q.dg \notin ChildDigests

\* C8: the step after an index was negotiated asks for its first entry; a 200
\* answer makes that entry's manifest the manifest in use, any other answer
\* leaves the index in use and the resolution goes on without failing
C8_RefetchStep ==
    (pc = "refetch" /\ pc' # "refetch") =>
        LET q == reqs'[Len(reqs')]
        IN  /\ Len(reqs') = Len(reqs) + 1
            /\ IsRefetch(q) /\ q.dg = manifest.manifests[1]
            /\ q.status = 200 => manifest' = Child(manifest.manifests[1])
            /\ q.status \notin {0, 200} =>
                  /\ manifest' = manifest
                  /\ pc' = "resolved" /\ ~raised' /\ digest' = ldigest

\* C8: one entry at most is re-fetched, and a config blob asked for after a
\* re-fetch answered 200 is the blob of the re-fetched manifest
C8_OnlyFirstEntryUsed ==
    /\ Cardinality({i \in DOMAIN reqs : IsRefetch(reqs[i])}) <= 1
    /\ \A i, j \in DOMAIN reqs :
          (IsRefetch(reqs[i]) /\ IsBlobGet(reqs[j])) =>
              i < j /\ reqs[i].status = 200 /\ reqs[j].dg = Child(reqs[i].dg).config

Captured == {reqs[i].digest : i \in TagAnswers}

\* C9: a DELETE request names the digest captured by the tag's resolution,
\* never the tag; when an external writer has moved the tag since, the
\* digest the tag now points to is not the one deleted.
C9_DeleteByCapturedDigest ==
    \A i \in DOMAIN reqs :
        IsDelete(reqs[i]) =>
            /\ reqs[i].tag = NoTag
            /\ reqs[i].dg \in Digests
            /\ Captured = {reqs[i].dg}
            /\ pointer \notin Captured => reqs[i].dg # pointer

C9_Witness ==
    /\ HasDelete /\ repoints > 0
    /\ pointer \notin Captured

\* the tag 'latest' is protected by the configuration
LatestProtected == latest \in PROTECTED_TAGS \/ MatchesPattern(latest)

\* C10 as stated: 'latest' is always skipped as special, with no request
C10_LatestAlwaysSkipSpecial ==
    (HasTag /\ tag = latest) =>
        /\ reqs = <<>>
        /\ pc \in {"tag_loop", "tag_done"}
        /\ pc = "tag_done" => outcome = "SkipSpecial"

\* C10: no request is sent for 'latest', which is KeepProtected when the
\* configuration protects it and SkipSpecial otherwise
C10_LatestState ==
    (HasTag /\ tag = latest) =>
        /\ reqs = <<>>
        /\ pc \in {"tag_loop", "tag_done"}
        /\ pc = "tag_done" =>
              outcome = IF LatestProtected THEN "KeepProtected" ELSE "SkipSpecial"

\* C10: it is counted as skipped exactly when it is SkipSpecial
C10_LatestCounted ==
    (HasTag /\ tag = latest /\ pc = "tag_loop" /\ pc' = "tag_done") =>
        /\ skipped_count' = skipped_count + (IF LatestProtected THEN 0 ELSE 1)
        /\ deleted_count' = deleted_count

\* C10 (amended): the tag 'latest' yields SkipSpecial and is counted as
\* skipped unless protected_tags or protected_patterns protect it, when it
\* yields KeepProtected and is not counted; either way no manifest request
\* and no DELETE request is sent for it.
C10_LatestSkippedUnlessProtected ==
    []C10_LatestState /\ [][C10_LatestCounted]_vars

C10_Witness ==
    /\ HasTag /\ tag = latest /\ pc = "tag_done"
    /\ ~LatestProtected /\ outcome = "SkipSpecial" /\ skipped_count > 0

\* a request of the tag's resolution met a transport error
ResolveError == \E i \in DOMAIN reqs : reqs[i].method = "GET" /\ reqs[i].status = 0

\* C11: a transport error during a tag's resolution makes the tag one whose
\* timestamp cannot be resolved, skipped as "no date info" and not as
\* "not found"; a digest that a 200 answer had delivered before the failure
\* is still returned, with a None date.
C11_TransportErrorKeepsDigest ==
    /\ (pc = "tag_done" /\ ResolveError) => message = "Skipping tag (no date info)"
    /\ (pc = "resolved" /\ ResolveError /\ Captured \subseteq Digests /\ Captured # {}) =>
          digest \in Captured /\ created_date = NoneDate

\* C12: a run that deleted something runs the garbage collector exactly once,
\* after the last tag, and a run that deleted nothing never runs it,
\* however the run ends: also when a later request raised.
C12_GcOnceIffDeleted ==
    /\ pc = "done" => gc_runs = (IF accepted > 0 THEN 1 ELSE 0)
    /\ gc_runs > 0 => pc \in {"finally", "done"} /\ accepted > 0

\* the step sends a DELETE request that the registry answers, not with 202
FailedDelete ==
    /\ pc = "delete" /\ Len(reqs') = Len(reqs) + 1
    /\ IsDelete(reqs'[Len(reqs')])
    /\ reqs'[Len(reqs')].status \notin {0, 202}

\* C13 as stated: the failed deletion is reported, goes into a count other
\* than the deleted count, and the run goes on
C13_FailedDeleteCounted ==
    [][FailedDelete =>
          /\ message' = "Failed to delete"
          /\ deleted_count' = deleted_count
          /\ count_vars' # count_vars
          /\ pc' = "tag_done" /\ exit_code' = 0]_vars

\* C13: the step of a failed deletion reports it and changes no count
C13_FailedDeleteStep ==
    FailedDelete =>
        /\ message' = "Failed to delete"
        /\ count_vars' = count_vars
        /\ pc' = "tag_done" /\ exit_code' = 0

\* C13: the run leaves a tag for the next one
C13_RunGoesOn == pc = "tag_done" => pc' = "tag_loop" /\ tag_i' = tag_i + 1 /\ exit_code' = 0

\* C13 (amended): a DELETE answered with another status than 202 is
\* reported for the tag as a failure and is counted nowhere, neither in the
\* deleted count nor in the skipped count; the run does not abort and goes
\* on to the next tag.
C13_FailedDeleteReportedNotCounted ==
    [][C13_FailedDeleteStep /\ C13_RunGoesOn]_vars

C13_Witness ==
    /\ pc = "tag_done" /\ tag_i < Len(tags)
    /\ HasDelete /\ reqs[Len(reqs)].status = 500
    /\ message = "Failed to delete" /\ outcome = "Delete"
    /\ deleted_count = 0 /\ skipped_count = 0 /\ exit_code = 0

\* C14: the post-run measurement has run exactly once when the process
\* exits and not before; the exit status is non-zero exactly when an
\* exception reached main's except clause
C14_AtExit ==
    /\ measured = (IF pc = "done" THEN 1 ELSE 0)
    /\ pc = "done" => (exit_code # 0) = (exception # "None")
    /\ pc \in {"except", "finally", "done"} \/ (exception = "None" /\ exit_code = 0)

\* C14: a catalog or tag-list request that fails, and a DELETE request that
\* raises, take the run to the except clause
C14_Raises ==
    (exception = "None" /\ exception' # "None") =>
        /\ pc \in {"get_repositories", "repo_loop", "delete"}
        /\ pc' = "except"
        /\ pc = "delete" => IsDelete(reqs'[Len(reqs')]) /\ reqs'[Len(reqs')].status = 0

\* C14: the except clause exits with a non-zero status through the finally
\* clause, whose measurement is the last step of either path
C14_Steps ==
    /\ pc = "except" => pc' = "finally" /\ exit_code' # 0 /\ measured' = 0
    /\ pc = "finally" => pc' = "done" /\ measured' = 1 /\ exit_code' = exit_code
    /\ pc' = "done" => pc = "finally"

\* C14: an exception that escapes the run loop ends the run with a non-zero
\* exit status after the post-run storage measurement has been executed; on
\* the success path the measurement is executed exactly once.
C14_ExitAfterMeasurement ==
    []C14_AtExit /\ [][C14_Raises /\ C14_Steps]_vars

C14_Witness ==
    /\ pc = "done" /\ exception = "ConnectionError" /\ exit_code = 1 /\ measured = 1
    /\ deleted_count = 1 /\ tag_i = 2

\* C15: every run that ends has reported the totals of deleted and skipped
\* tags once; stated of the runs that had counted a tag before they ended,
\* the aborted ones among them.
C15_SummaryAtEveryEnd ==
    (pc = "done" /\ deleted_count + skipped_count > 0) => summaries = 1

\* the Last-Modified header of the answer that carried the tag's manifest
TagLastModified == reqs[CHOOSE i \in TagAnswers : TRUE].last_modified

\* C16: when step 3 supplies the date, the date is the Last-Modified of the
\* answer to the tag's own manifest request, also for an index whose first
\* entry was re-fetched
C16_Step3UsesTagAnswer ==
    (/\ pc = "resolved" /\ ~raised /\ TagAnswers # {}
     /\ Method1(config).tag = "none" /\ Method2(response).tag = "ret") =>
        created_date = Value(TagLastModified)

\* C16: and step 3 has that header to use whether the re-fetch answered 200
\* or not: with nothing from the config, a value in it is the date
C16_Step3AfterAnyRefetch ==
    (/\ pc = "resolved" /\ ~raised /\ TagAnswers # {}
     /\ \E i \in DOMAIN reqs : IsRefetch(reqs[i])
     /\ Method1(config).tag = "none" /\ Value(TagLastModified) # <<>>) =>
        created_date = Value(TagLastModified)

\* C16: the Last-Modified that step 3 uses is the header of the tag's
\* original manifest answer, also when the manifest was an index whose first
\* entry was re-fetched, whether the re-fetch succeeded or failed.
C16_LastModifiedOfTagFetch == C16_Step3UsesTagAnswer /\ C16_Step3AfterAnyRefetch

\* the cutoff at the moment the tag in hand is evaluated
CutoffNow == now - DAYS_TO_KEEP * TicksPerDay

\* C17: the decision on a tag refers to the clock at its evaluation, as the
\* age reported for it does: a tag kept as recent was created at or after
\* now - days_to_keep, and a tag to delete was created before it and has an
\* age of at least days_to_keep days.
C17_DecisionAtEvaluationTime ==
    (HasTag /\ pc \in {"delete", "tag_done"} /\ created_date # NoneDate) =>
        /\ outcome = "KeepRecent" => created_date[1] >= CutoffNow
        /\ outcome = "Delete" => created_date[1] < CutoffNow /\ age_days >= DAYS_TO_KEEP

Outcomes == {"KeepProtected", "SkipSpecial", "SkipUnresolvable", "Delete", "KeepRecent"}

\* C18: the counters against the history of the run, and the tag in hand:
\* a decided tag has one of the five outcomes, a DELETE request is sent at
\* most once and only for a tag decided Delete
C18_Counts ==
    /\ deleted_count = accepted
    /\ skipped_count = skips
    /\ deleted_count + skipped_count <= processed
    /\ pc = "tag_done" => outcome \in Outcomes
    /\ outcome \in Outcomes \cup {"None"}
    /\ Cardinality({i \in DOMAIN reqs : IsDelete(reqs[i])}) <= 1
    /\ HasDelete => outcome = "Delete"

\* C18: the counters never decrease; a tag is given its outcome once, counted
\* as processed then, and keeps it until the run leaves the tag
C18_Step ==
    /\ deleted_count' >= deleted_count /\ skipped_count' >= skipped_count
    /\ outcome # "None" => outcome' = outcome \/ (outcome' = "None" /\ pc' # pc)
    /\ processed' = processed + (IF outcome = "None" /\ outcome' # "None" THEN 1 ELSE 0)
    /\ (pc = "tag_done" /\ pc' # pc) => outcome' = "None" /\ tag_i' = tag_i + 1

\* C18: every processed tag has exactly one of the five outcomes and at most
\* one DELETE request; the counters never decrease, deleted equals the DELETE
\* requests answered 202, skipped equals the SkipSpecial plus
\* SkipUnresolvable outcomes, and deleted + skipped is at most the number of
\* tags processed.
C18_CountersFollowOutcomes == []C18_Counts /\ [][C18_Step]_vars

C18_Witness ==
    /\ pc = "done" /\ processed >= 3
    /\ deleted_count >= 1 /\ skipped_count >= 1
    /\ deleted_count + skipped_count < processed
====
